---- MODULE Spec2Model ----
(***************************************************************************)
(* A model of package resourceutil (cpu.go, mem.go, storage.go): the       *)
(* one-shot reporters GetCPULoad, GetBatterySOH, GetMemUsage and           *)
(* GetDiskUsage over the pseudo-files they read.                           *)
(*                                                                         *)
(* float64 values are modelled as exact rationals <<n, d>> in lowest terms *)
(* with d > 0.  A float64 division by zero does not trap in Go: it yields  *)
(* NaN (0/0) or +-Inf (x/0); those are the pairs <<0, 0>>, <<1, 0>> and    *)
(* <<-1, 0>>.                                                              *)
(***************************************************************************)
EXTENDS Integers, Sequences, FiniteSets, TLC

\* ---------------------------------------------------------------- bounds

\* Counter fields after the "cpu" prefix that a modelled line may hold.
MaxFieldCount == 12
\* Largest numeric value of a token in a modelled cpu line.
MaxTok == 2
\* Calls of GetCPULoad in one behaviour.
MaxCalls == 11
\* Kernel accounting ticks in one behaviour.
MaxTicks == 2
\* Largest magnitude of an integer in a battery attribute file.
MaxEnergy == 3
\* Lines of a modelled /proc/meminfo.
MaxMemLines == 2
\* Largest small kB value in a modelled /proc/meminfo.
MaxKB == 2
\* Largest block count, and largest block size, of a modelled mount.
MaxBlocks == 4
MaxBsize == 2

\* ------------------------------------------------------ program constants

\* cpu.go:56  len(fields) > 11 : the prefix plus ten counters.
MaxFields == 11
\* cpu.go:56  len(fields) < 5 : the prefix plus four counters.
MinFields == 5
\* cpu.go:69  i == 4 : the idle field.
IdleIdx == 4
\* cpu.go:69  i == 5 : the iowait field.
IOWaitIdx == 5
\* cpu.go:74  the percent factor.
Percent == 100

\* ------------------------------------------------------------- rationals

Abs(x) == IF x < 0 THEN -x ELSE x

Sign(x) == IF x < 0 THEN -1 ELSE IF x > 0 THEN 1 ELSE 0

RECURSIVE GCD(_, _)
GCD(a, b) == IF b = 0 THEN a ELSE GCD(b, a % b)

\* n/d as a float64 quotient: lowest terms, or NaN / +-Inf when d = 0.
FDiv(n, d) ==
  IF d = 0 THEN <<Sign(n), 0>>
  ELSE LET g == GCD(Abs(n), Abs(d))
           s == Sign(d)
       IN <<(s * n) \div g, (s * d) \div g>>

RZero == <<0, 1>>

\* a - b of two finite values, over their least common denominator.
FSub(a, b) ==
  LET l == (a[2] \div GCD(a[2], b[2])) * b[2]
  IN FDiv(a[1] * (l \div a[2]) - b[1] * (l \div b[2]), l)

\* k * a for an integer constant k.
FScale(k, a) == FDiv(k * a[1], a[2])

\* a / b of two finite values (cross-cancelled before multiplying); b = 0
\* gives NaN or +-Inf as in FDiv.
FQuot(a, b) ==
  IF b[1] = 0 THEN <<Sign(a[1]), 0>>
  ELSE LET g1 == GCD(Abs(a[1]), Abs(b[1]))
           g2 == GCD(a[2], b[2])
       IN FDiv((a[1] \div g1) * (b[2] \div g2), (a[2] \div g2) * (b[1] \div g1))

IsFinite(r) == r[2] # 0

\* --------------------------------------------------------------- cpu.go

VARIABLES
  statLine,   \* /proc/stat: [present, fields] of the aggregate "cpu " line
  statPrev,   \* the counters of statLine one accounting tick earlier
  ticks,      \* accounting ticks so far
  cpuRes,     \* what the last GetCPULoad call read and returned
  cpuHist,    \* the values of the successful calls, newest first
  nCalls,     \* GetCPULoad calls so far
  battery,    \* sysfs: [name, full, design], the two attribute files
  batRes,     \* what the last GetBatterySOH call returned
  memInfo,    \* /proc/meminfo: a sequence of lines
  memRes,     \* what the last GetMemUsage call read and returned
  statfs,     \* the mount's statistics: [ok, Blocks, Bavail, Bsize]
  diskRes     \* what the last GetDiskUsage call returned

cpuVars == <<statLine, statPrev, ticks, cpuRes, cpuHist, nCalls>>
batVars == <<battery, batRes>>
memVars == <<memInfo, memRes>>
diskVars == <<statfs, diskRes>>
vars == <<cpuVars, batVars, memVars, diskVars>>

\* A whitespace-separated token of the line: text that ParseFloat accepts,
\* with its value, or text that it rejects.
Num(v) == [num |-> TRUE, val |-> v]
BadTok == [num |-> FALSE, val |-> 0]
Tokens == {Num(v) : v \in 0..MaxTok} \cup {BadTok}

\* statLine.present: the scanner delivers a line with the prefix "cpu "
\* (cpu.go:27-31); when it does not, the loop ends without a load computed.
\* openOk and scanOk are os.Open (cpu.go:14) and scanner.Err (cpu.go:80)
\* reporting no I/O error.

\* strings.Fields(line): the "cpu" prefix and then the counter tokens.
Fields(line) == <<"cpu">> \o line.fields

\* Mutant: the limits 4 and 10 applied to len(fields), prefix included.
FieldCountBadNoPrefix(fields) ==
  Len(fields) > MaxFields - 1 \/ Len(fields) < MinFields - 1

\* cpu.go:56  the field-count check.
FieldCountBad(fields) == Len(fields) > MaxFields \/ Len(fields) < MinFields

\* cpu.go:63-67  the first field ParseFloat rejects, 0 when there is none.
FirstParseError(fields) ==
  LET bad == {i \in 2..Len(fields) : ~fields[i].num}
  IN IF bad = {} THEN 0 ELSE CHOOSE i \in bad : \A j \in bad : i <= j

\* cpu.go:60-72  the loop's totalTime: every counter field summed.
RECURSIVE SumFrom(_, _)
SumFrom(fields, i) ==
  IF i > Len(fields) THEN 0 ELSE fields[i].val + SumFrom(fields, i + 1)

TotalTime(fields) == SumFrom(fields, 2)

\* Mutant: iowait left out of the idle time.
IdleFieldOnly(i) == i = IdleIdx

\* cpu.go:69-71  fields[i] counts as idle time; fields[0] is the prefix, so
\* index i is position i + 1 of the 1-based sequence.
IsIdleField(i) == i = IdleIdx \/ i = IOWaitIdx

IdleTime(fields) ==
  LET at(i) == IF i + 1 <= Len(fields) /\ IsIdleField(i)
               THEN fields[i + 1].val ELSE 0
  IN at(IdleIdx) + at(IOWaitIdx)

\* cpu.go:74  loadPercent = 100 * (totalTime - idleTime) / totalTime
LoadPercent(totalTime, idleTime) ==
  FDiv(Percent * (totalTime - idleTime), totalTime)

\* Mutant: a guard that refuses every call until a sampler is started.
CPULoadNotStarted(line, openOk, scanOk) ==
  [err |-> "notstarted", val |-> RZero]

\* cpu.go:13-86  GetCPULoad's (value, error) for one read of /proc/stat.
CPULoadOf(line, openOk, scanOk) ==
  IF ~openOk THEN [err |-> "open", val |-> RZero]
  ELSE IF line.present /\ FieldCountBad(Fields(line))
    THEN [err |-> "fields", val |-> RZero]
  ELSE IF line.present /\ FirstParseError(Fields(line)) # 0
    THEN [err |-> "parse", val |-> RZero]
  ELSE IF ~scanOk THEN [err |-> "scan", val |-> RZero]
  ELSE IF ~line.present THEN [err |-> "none", val |-> RZero]
  ELSE [err |-> "none",
        val |-> LoadPercent(TotalTime(Fields(line)), IdleTime(Fields(line)))]

NoCall ==
  [called |-> FALSE, openOk |-> TRUE, scanOk |-> TRUE,
   line |-> [present |-> FALSE, fields |-> <<>>],
   prev |-> [present |-> FALSE, fields |-> <<>>],
   err |-> "none", val |-> RZero]

\* The caller's record of the last ten values returned without error.
HistCap == 10

Push(hist, v) ==
  IF Len(hist) < HistCap THEN <<v>> \o hist
  ELSE <<v>> \o SubSeq(hist, 1, HistCap - 1)

GetCPULoad ==
  /\ nCalls < MaxCalls
  /\ \E openOk \in BOOLEAN, scanOk \in BOOLEAN :
       LET r == CPULoadOf(statLine, openOk, scanOk)
       IN /\ cpuRes' = [called |-> TRUE, openOk |-> openOk, scanOk |-> scanOk,
                        line |-> statLine, prev |-> statPrev,
                        err |-> r.err, val |-> r.val]
          /\ cpuHist' = IF r.err = "none" THEN Push(cpuHist, r.val) ELSE cpuHist
  /\ nCalls' = nCalls + 1
  /\ UNCHANGED <<statLine, statPrev, ticks, batVars, memVars, diskVars>>

\* The kernel's accounting between two reads (cpu.go:35-54): one more tick
\* of time in counter field i of the aggregate line.
KernelTick ==
  /\ ticks < MaxTicks
  /\ statLine.present
  /\ \E i \in {1, IdleIdx, IOWaitIdx} :
       /\ i <= Len(statLine.fields)
       /\ statLine.fields[i].num
       /\ statLine' = [statLine EXCEPT
                         !.fields[i] = Num(statLine.fields[i].val + 1)]
  /\ statPrev' = statLine
  /\ ticks' = ticks + 1
  /\ UNCHANGED <<cpuRes, cpuHist, nCalls, batVars, memVars, diskVars>>

\* ------------------------------------------------- cpu.go: the battery

\* An attribute file: unreadable, not an integer, or an integer.
BatFile(st, v) == [st |-> st, val |-> v]

\* cpu.go:98-112  intFromFile: the integer, or the read / parse error.
intFromFile(f) ==
  IF f.st = "noread" THEN [err |-> "read", val |-> 0]
  ELSE IF f.st = "noparse" THEN [err |-> "parse", val |-> 0]
  ELSE [err |-> "none", val |-> f.val]

\* Go's integer a / b, b # 0: the quotient truncated toward zero.
GoDiv(a, b) == Sign(a) * Sign(b) * (Abs(a) \div Abs(b))

\* cpu.go:151  the division guard.
DesignIsZero(energyFullDesign) == energyFullDesign = 0

\* Mutant: the quotient rounded down instead of toward zero.
StateOfHealthFloor(energyFull, energyFullDesign) ==
  IF energyFullDesign > 0
  THEN (Percent * energyFull) \div energyFullDesign
  ELSE (-(Percent * energyFull)) \div (-energyFullDesign)

\* cpu.go:155  stateOfHealth := 100 * energyFull / energyFullDesign
StateOfHealth(energyFull, energyFullDesign) ==
  GoDiv(Percent * energyFull, energyFullDesign)

\* cpu.go:133-157  GetBatterySOH's (value, error).
BatterySOHOf(bat) ==
  IF bat.name = "" THEN [err |-> "name", val |-> 0]
  ELSE LET full == intFromFile(bat.full)
           design == intFromFile(bat.design)
       IN IF full.err # "none" THEN [err |-> "energy_full", val |-> 0]
          ELSE IF design.err # "none"
            THEN [err |-> "energy_full_design", val |-> 0]
          ELSE IF DesignIsZero(design.val) THEN [err |-> "zero", val |-> 0]
          ELSE [err |-> "none", val |-> StateOfHealth(full.val, design.val)]

GetBatterySOH ==
  /\ LET r == BatterySOHOf(battery)
     IN batRes' = [called |-> TRUE, err |-> r.err, val |-> r.val]
  /\ UNCHANGED <<battery, cpuVars, memVars, diskVars>>

\* --------------------------------------------------------------- mem.go

\* mem.go:86  1024 * 1024 kB in a GB.
KBPerGB == 1048576

\* A line of the text: its key, and whether "<key>:\s*(\d+) kB" matches it
\* ("ok"), matches with digits that overflow an int ("overflow"), or does
\* not match ("nomatch").
MemLine(key, form, v) == [key |-> key, form |-> form, val |-> v]

\* mem.go:74-75  FindStringSubmatch: the leftmost line the pattern matches,
\* 0 when none does.
FirstMatch(memStr, key) ==
  LET hits == {i \in 1..Len(memStr) :
                 memStr[i].key = key /\ memStr[i].form # "nomatch"}
  IN IF hits = {} THEN 0 ELSE CHOOSE i \in hits : \A j \in hits : i <= j

\* mem.go:86  valueGB := float64(valuekB) / (1024 * 1024)
KBToGB(valuekB) == FDiv(valuekB, KBPerGB)

\* mem.go:73-88  extractMemValue's (value, error).
extractMemValue(memStr, key) ==
  LET i == FirstMatch(memStr, key)
  IN IF i = 0 THEN [err |-> "notfound", val |-> RZero]
     ELSE IF memStr[i].form = "overflow" THEN [err |-> "parse", val |-> RZero]
     ELSE [err |-> "none", val |-> KBToGB(memStr[i].val)]

\* Mutant: the guard left out.
NeverZero(memTotal) == FALSE

\* mem.go:43  the division guard.
MemTotalIsZero(memTotal) == memTotal[1] = 0

\* Mutant: the share available instead of the share used.
AvailablePercent(memTotal, memAvailable) ==
  FQuot(FScale(Percent, memAvailable), memTotal)

\* mem.go:47  usagePercent := 100 * (memTotal - memAvailable) / memTotal
UsagePercent(memTotal, memAvailable) ==
  FQuot(FScale(Percent, FSub(memTotal, memAvailable)), memTotal)

\* mem.go:53  UsedGB: memTotal - memAvailable
UsedGBOf(memTotal, memAvailable) == FSub(memTotal, memAvailable)

ZeroMemUsage ==
  [TotalGB |-> RZero, AvailableGB |-> RZero, UsedGB |-> RZero,
   UsedPercent |-> RZero]

\* mem.go:25-58  GetMemUsage's (MemUsage, error) for one read of the text.
MemUsageOf(readOk, memStr) ==
  IF ~readOk THEN [err |-> "read", usage |-> ZeroMemUsage]
  ELSE LET avail == extractMemValue(memStr, "MemAvailable")
           total == extractMemValue(memStr, "MemTotal")
       IN IF avail.err # "none" THEN [err |-> avail.err, usage |-> ZeroMemUsage]
          ELSE IF total.err # "none"
            THEN [err |-> total.err, usage |-> ZeroMemUsage]
          ELSE IF MemTotalIsZero(total.val)
            THEN [err |-> "zero", usage |-> ZeroMemUsage]
          ELSE [err |-> "none",
                usage |-> [TotalGB |-> total.val,
                           AvailableGB |-> avail.val,
                           UsedGB |-> UsedGBOf(total.val, avail.val),
                           UsedPercent |-> UsagePercent(total.val, avail.val)]]

GetMemUsage ==
  /\ \E readOk \in BOOLEAN :
       LET r == MemUsageOf(readOk, memInfo)
       IN memRes' = [called |-> TRUE, readOk |-> readOk, memStr |-> memInfo,
                     err |-> r.err, usage |-> r.usage]
  /\ UNCHANGED <<memInfo, cpuVars, batVars, diskVars>>

\* ----------------------------------------------------------- storage.go

\* storage.go:35  const bytesPerGB = 1024 * 1024 * 1024
bytesPerGB == 1073741824

ZeroStorageUsage ==
  [TotalGB |-> RZero, FreeGB |-> RZero, UsedGB |-> RZero,
   UsedPercent |-> RZero]

\* storage.go:40  usedPercent := (float64(used) / float64(total)) * 100
DiskUsedPercent(used, total) == FScale(Percent, FDiv(used, total))

\* storage.go:22-52  GetDiskUsage's (StorageUsage, error).
DiskUsageOf(stat) ==
  IF ~stat.ok THEN [err |-> "statfs", usage |-> ZeroStorageUsage]
  ELSE LET total == stat.Blocks * stat.Bsize
           free == stat.Bavail * stat.Bsize
           used == total - free
       IN [err |-> "none",
           usage |-> [TotalGB |-> FDiv(total, bytesPerGB),
                      FreeGB |-> FDiv(free, bytesPerGB),
                      UsedGB |-> FDiv(used, bytesPerGB),
                      UsedPercent |-> DiskUsedPercent(used, total)]]

GetDiskUsage ==
  /\ LET r == DiskUsageOf(statfs)
     IN diskRes' = [called |-> TRUE, err |-> r.err, usage |-> r.usage]
  /\ UNCHANGED <<statfs, cpuVars, batVars, memVars>>

\* ------------------------------------------------------ specifications

NoBatCall == [called |-> FALSE, err |-> "none", val |-> 0]
NoMemCall ==
  [called |-> FALSE, readOk |-> TRUE, memStr |-> <<>>, err |-> "none",
   usage |-> ZeroMemUsage]
NoDiskCall == [called |-> FALSE, err |-> "none", usage |-> ZeroStorageUsage]

InitCPUWith(lines) ==
  /\ statLine \in lines
  /\ statPrev = statLine
  /\ ticks = 0
  /\ cpuRes = NoCall
  /\ cpuHist = <<>>
  /\ nCalls = 0

IdleCPU == InitCPUWith({[present |-> FALSE, fields |-> <<>>]})
IdleBat ==
  /\ battery = [name |-> "", full |-> BatFile("noread", 0),
                design |-> BatFile("noread", 0)]
  /\ batRes = NoBatCall
IdleMem == memInfo = <<>> /\ memRes = NoMemCall
IdleDisk ==
  /\ statfs = [ok |-> FALSE, Blocks |-> 0, Bavail |-> 0, Bsize |-> 0]
  /\ diskRes = NoDiskCall

\* Any aggregate line: n tokens, all a except token b at position p.
PatternLines ==
  {[present |-> TRUE, fields |-> [i \in 1..n |-> IF i = p THEN b ELSE a]] :
     n \in 0..MaxFieldCount, a \in Tokens, b \in Tokens, p \in 1..MaxFieldCount}
  \cup {[present |-> FALSE, fields |-> <<>>]}

\* The aggregate line at boot, all counters zero: the shortest line the
\* code accepts (no iowait field) and the longest.
BootLines ==
  {[present |-> TRUE, fields |-> [i \in 1..n |-> Num(0)]] :
     n \in {MinFields - 1, MaxFields - 1}}

\* One-shot reads of arbitrary /proc/stat content.
InitParse == InitCPUWith(PatternLines) /\ IdleBat /\ IdleMem /\ IdleDisk
NextParse == GetCPULoad
SpecParse == InitParse /\ [][NextParse]_vars

\* Repeated reads while the kernel's counters advance from boot.
InitSample == InitCPUWith(BootLines) /\ IdleBat /\ IdleMem /\ IdleDisk
NextSample == GetCPULoad \/ KernelTick
SpecSample == InitSample /\ [][NextSample]_vars


\* The attribute files of a battery: any integer text, or a failure.
BatFiles ==
  {BatFile("ok", v) : v \in (-MaxEnergy)..MaxEnergy}
  \cup {BatFile("noread", 0), BatFile("noparse", 0)}

InitBattery ==
  /\ battery \in [name : {"", "BAT0"}, full : BatFiles, design : BatFiles]
  /\ batRes = NoBatCall
  /\ IdleCPU /\ IdleMem /\ IdleDisk
NextBattery == GetBatterySOH
SpecBattery == InitBattery /\ [][NextBattery]_vars

\* The lines a memory text is built from.
MemKeys == {"MemTotal", "MemAvailable", "MemFree"}
MemValues == (0..MaxKB) \cup {2000000, 8000000}
MemLines ==
  {MemLine(k, "ok", v) : k \in MemKeys, v \in MemValues}
  \cup {MemLine(k, f, 0) : k \in MemKeys, f \in {"overflow", "nomatch"}}

InitMem ==
  /\ memInfo \in UNION {[1..n -> MemLines] : n \in 0..MaxMemLines}
  /\ memRes = NoMemCall
  /\ IdleCPU /\ IdleBat /\ IdleDisk
NextMem == GetMemUsage
SpecMem == InitMem /\ [][NextMem]_vars

\* A mount's statistics: the blocks available never exceed the blocks, so
\* the uint64 subtraction total - free does not wrap.
InitDisk ==
  /\ statfs \in {st \in [ok : BOOLEAN, Blocks : 0..MaxBlocks,
                         Bavail : 0..MaxBlocks, Bsize : 0..MaxBsize] :
                   st.Bavail <= st.Blocks}
  /\ diskRes = NoDiskCall
  /\ IdleCPU /\ IdleBat /\ IdleMem
NextDisk == GetDiskUsage
SpecDisk == InitDisk /\ [][NextDisk]_vars

\* ------------------------------------------------------- claims: cpu.go

\* What a claim says of a cpu line, stated over the line itself.
CounterCount(line) == Len(line.fields)
AllParse(line) == \A i \in 1..Len(line.fields) : line.fields[i].num
WellFormed(line) ==
  CounterCount(line) >= 4 /\ CounterCount(line) <= 10 /\ AllParse(line)

RECURSIVE CounterSum(_, _)
CounterSum(line, n) ==
  IF n = 0 THEN 0 ELSE line.fields[n].val + CounterSum(line, n - 1)

\* total: the sum of all counter fields; idle: the idle plus iowait field.
TotalOf(line) == CounterSum(line, Len(line.fields))
IdleOf(line) ==
  line.fields[4].val + (IF Len(line.fields) >= 5 THEN line.fields[5].val ELSE 0)

InPercentRange(r) == r[2] > 0 /\ 0 <= r[1] /\ r[1] <= 100 * r[2]

\* 100 * (totalDiff - idleDiff) / totalDiff of snapshots A and B.
DiffLoad(A, B) ==
  LET totalDiff == TotalOf(B) - TotalOf(A)
      idleDiff == IdleOf(B) - IdleOf(A)
  IN FDiv(100 * (totalDiff - idleDiff), totalDiff)

\* C1 (as claimed): a successful GetCPULoad returns the load of the interval
\* between the snapshot one accounting tick back (A) and the snapshot now
\* (B), 100 * (totalDiff - idleDiff) / totalDiff: a value that depends only
\* on the differences of the two snapshots.
C1_DualSnapshotLoad ==
  (cpuRes.called /\ cpuRes.err = "none" /\ cpuRes.line.present
     /\ cpuRes.prev # cpuRes.line)
    => cpuRes.val = DiffLoad(cpuRes.prev, cpuRes.line)

\* C2 (as claimed): with no start request in the history, a call of
\* GetCPULoad returns the "not started" error.
C2_NotStartedError ==
  cpuRes.called => cpuRes.err = "notstarted"

\* C2 (amended): GetCPULoad has no start precondition.  Its errors are the
\* open, field-count, parse and scan errors, never "not started"; the first
\* call of a history, made with no start request before it, on a readable
\* /proc/stat whose cpu line has 4 to 10 parseable counters returns a load
\* value and no error.
C2_NoStartNeeded ==
  cpuRes.called =>
    /\ cpuRes.err \in {"none", "open", "fields", "parse", "scan"}
    /\ (nCalls = 1 /\ cpuRes.openOk /\ cpuRes.scanOk /\ cpuRes.line.present
          /\ WellFormed(cpuRes.line))
         => (cpuRes.err = "none" /\ cpuHist = <<cpuRes.val>>)

C2_Witness ==
  /\ cpuRes.called /\ nCalls = 1 /\ cpuRes.err = "none"
  /\ cpuRes.line.present /\ WellFormed(cpuRes.line)
  /\ cpuRes.val = <<50, 1>>

\* The arithmetic mean of a history of finite values (NaN otherwise).
FAdd(a, b) == FSub(a, <<-b[1], b[2]>>)

RECURSIVE FSum(_)
FSum(h) == IF h = <<>> THEN RZero ELSE FAdd(Head(h), FSum(Tail(h)))

Mean(h) ==
  IF \E i \in 1..Len(h) : ~IsFinite(h[i]) THEN <<0, 0>>
  ELSE LET t == FSum(h) IN FDiv(t[1], t[2] * Len(h))

C4_ZeroTotalIsError ==
  (cpuRes.called /\ cpuRes.openOk /\ cpuRes.line.present
     /\ WellFormed(cpuRes.line) /\ TotalOf(cpuRes.line) = 0)
    => (cpuRes.err # "none" /\ IsFinite(cpuRes.val))

\* C5: GetCPULoad returns an error (and the zero value) for every cpu line
\* with fewer than 4 or more than 10 counter fields or with a counter field
\* that does not parse, and accepts every line with 4 to 10 parseable
\* counter fields (given that the file opens and scans).
C5_MalformedLineIsError ==
  (cpuRes.called /\ cpuRes.openOk /\ cpuRes.line.present) =>
    /\ (CounterCount(cpuRes.line) < 4 \/ CounterCount(cpuRes.line) > 10)
         => (cpuRes.err = "fields" /\ cpuRes.val = RZero)
    /\ ~AllParse(cpuRes.line)
         => (cpuRes.err \in {"fields", "parse"} /\ cpuRes.val = RZero)
    /\ (WellFormed(cpuRes.line) /\ cpuRes.scanOk) => cpuRes.err = "none"

C5_Witness ==
  /\ cpuRes.called /\ cpuRes.openOk /\ cpuRes.line.present
  /\ CounterCount(cpuRes.line) = 10 /\ ~AllParse(cpuRes.line)
  /\ cpuRes.err = "parse"

\* ------------------------------------------------- claims: the battery

\* Both attribute files hold integers and the battery is named.
BatInputsOk ==
  battery.name # "" /\ battery.full.st = "ok" /\ battery.design.st = "ok"

\* floor(a / b), b # 0.
FloorDiv(a, b) == IF b > 0 THEN a \div b ELSE (-a) \div (-b)

\* C6 (as claimed): GetBatterySOH returns an error when energy_full_design
\* is 0, and otherwise floor(100 * energyFull / energyFullDesign), for
\* every pair of integers the files parse to.
C6_FloorQuotient ==
  (batRes.called /\ BatInputsOk) =>
    IF battery.design.val = 0 THEN batRes.err # "none"
    ELSE /\ batRes.err = "none"
         /\ batRes.val = FloorDiv(100 * battery.full.val, battery.design.val)

\* C6 (amended): GetBatterySOH returns an error when energy_full_design is
\* 0, and otherwise 100 * energyFull / energyFullDesign truncated toward
\* zero: the integer q whose remainder 100 * energyFull - q * design is
\* smaller in magnitude than the design capacity and is zero or has the
\* sign of the dividend.  That is the floor exactly when the quotient is
\* not negative or the division is exact.
C6_TruncatedQuotient ==
  (batRes.called /\ BatInputsOk) =>
    IF battery.design.val = 0 THEN batRes.err = "zero" /\ batRes.val = 0
    ELSE LET n == 100 * battery.full.val
             d == battery.design.val
             r == n - batRes.val * d
         IN /\ batRes.err = "none"
            /\ Abs(r) < Abs(d)
            /\ (r = 0 \/ Sign(r) = Sign(n))
            /\ (r = 0 \/ Sign(n) = Sign(d)) <=> batRes.val = FloorDiv(n, d)

C6_Witness ==
  /\ batRes.called /\ BatInputsOk
  /\ battery.full.val = -1 /\ battery.design.val = 3
  /\ batRes.err = "none" /\ batRes.val = -33

\* --------------------------------------------------------- claims: mem.go

\* The entry of a key: the leftmost line of the text with that key that the
\* pattern matches.
HasEntry(text, key) ==
  \E i \in 1..Len(text) : text[i].key = key /\ text[i].form # "nomatch"

EntryOf(text, key) ==
  LET i == CHOOSE i \in 1..Len(text) :
             /\ text[i].key = key /\ text[i].form # "nomatch"
             /\ \A j \in 1..(i - 1) :
                  ~(text[j].key = key /\ text[j].form # "nomatch")
  IN text[i]

\* Both entries are present and their digits parse.
MemWellFormed(text) ==
  /\ HasEntry(text, "MemTotal") /\ EntryOf(text, "MemTotal").form = "ok"
  /\ HasEntry(text, "MemAvailable")
  /\ EntryOf(text, "MemAvailable").form = "ok"

\* C7: GetMemUsage returns an error and the zero MemUsage whenever the text
\* has no MemTotal entry that matches the pattern, or its MemTotal is 0,
\* whatever the MemAvailable entry is.
C7_NoTotalIsError ==
  (memRes.called /\
     (\/ ~HasEntry(memRes.memStr, "MemTotal")
      \/ (/\ EntryOf(memRes.memStr, "MemTotal").form = "ok"
          /\ EntryOf(memRes.memStr, "MemTotal").val = 0)))
    => (memRes.err # "none" /\ memRes.usage = ZeroMemUsage)

C7_Witness ==
  /\ memRes.called /\ memRes.readOk /\ MemWellFormed(memRes.memStr)
  /\ EntryOf(memRes.memStr, "MemTotal").val = 0
  /\ EntryOf(memRes.memStr, "MemAvailable").val = 2000000
  /\ memRes.err = "zero"

\* C8: for a text read once with MemTotal = T kB and MemAvailable = A kB,
\* T > 0, GetMemUsage succeeds with UsedGB = (T - A) / 1024^2 and
\* UsedPercent = 100 * (T - A) / T; T = 8000000 and A = 2000000 give 75.
C8_UsedFormulas ==
  (memRes.called /\ memRes.readOk /\ MemWellFormed(memRes.memStr)
     /\ EntryOf(memRes.memStr, "MemTotal").val > 0)
    => LET T == EntryOf(memRes.memStr, "MemTotal").val
           A == EntryOf(memRes.memStr, "MemAvailable").val
       IN /\ memRes.err = "none"
          /\ memRes.usage.UsedGB = FDiv(T - A, 1024 * 1024)
          /\ memRes.usage.UsedPercent = FDiv(100 * (T - A), T)
          /\ (T = 8000000 /\ A = 2000000)
               => memRes.usage.UsedPercent = <<75, 1>>

C8_Witness ==
  /\ memRes.called /\ memRes.err = "none"
  /\ EntryOf(memRes.memStr, "MemTotal").val = 8000000
  /\ EntryOf(memRes.memStr, "MemAvailable").val = 2000000
  /\ memRes.usage.UsedPercent = <<75, 1>>

\* C10 (as claimed): every MemUsage returned without error has its four
\* fields non-negative, also when MemAvailable exceeds MemTotal.
C10_FieldsNonNegative ==
  (memRes.called /\ memRes.err = "none") =>
    /\ memRes.usage.TotalGB[1] >= 0
    /\ memRes.usage.AvailableGB[1] >= 0
    /\ memRes.usage.UsedGB[1] >= 0
    /\ memRes.usage.UsedPercent[1] >= 0

\* ----------------------------------------------------- claims: storage.go

\* C9 (as claimed): GetDiskUsage returns an error, and no value computed by
\* a division by zero, when the statistics give a total size of zero.
C9_ZeroTotalIsError ==
  (diskRes.called /\ statfs.ok /\ statfs.Blocks * statfs.Bsize = 0)
    => (diskRes.err # "none" /\ IsFinite(diskRes.usage.UsedPercent))

====
